---- MODULE Spec2Model ----
(***************************************************************************)
(* Fetch / cache / authentication pipeline of the Spotify-Obsidian plugin  *)
(* (src/spotify_plugin_main.js).                                           *)
(*                                                                         *)
(* Time is counted in units of 2.5 minutes: cacheTimeout, 5 * 60 * 1000 ms, *)
(* is 2 units, and so is the 5-minute buffer of src/main.js.               *)
(* A JavaScript string is a sequence of tokens; a token stands for a run   *)
(* of characters that holds no ':' and no blank, ":" for the colon and     *)
(* " " for a blank.  null is the empty sequence, a number n is <<n>>.      *)
(***************************************************************************)
EXTENDS Integers, Sequences, FiniteSets, TLC

\* ------------------------------------------------------------------ bounds
\* code blocks, inline links and search blocks rendered; the last instant;
\* makeSpotifyRequest calls in a run; the longest playlist
NumTasks == 2
MaxTime == 3
MaxRequests == 3
MaxTracks == 250

\* ------------------------------------------------------- program constants
cacheTimeout == 2
bufferTime == 2
DefaultMaxResults == 20

Tasks == 1..NumTasks
Null == <<>>

\* ===================================================================
\* JavaScript strings and objects
\* ===================================================================

\* String.prototype.trim
RECURSIVE TrimLeft(_)
TrimLeft(s) ==
  IF s # <<>> /\ Head(s) = " " THEN TrimLeft(Tail(s)) ELSE s

RECURSIVE TrimRight(_)
TrimRight(s) ==
  IF s # <<>> /\ s[Len(s)] = " " THEN TrimRight(SubSeq(s, 1, Len(s) - 1)) ELSE s

Trim(s) == TrimRight(TrimLeft(s))

\* String.prototype.split(':'): the pieces between the colons
RECURSIVE SplitAcc(_, _, _)
SplitAcc(s, cur, acc) ==
  IF s = <<>> THEN Append(acc, cur)
  ELSE IF Head(s) = ":" THEN SplitAcc(Tail(s), <<>>, Append(acc, cur))
  ELSE SplitAcc(Tail(s), Append(cur, Head(s)), acc)

SplitColon(s) == SplitAcc(s, <<>>, <<>>)

\* JavaScript values held by a config object
Str(s) == [t |-> "str", s |-> s, n |-> 0]
Num(n) == [t |-> "num", s |-> <<>>, n |-> n]
NaN == [t |-> "nan", s |-> <<>>, n |-> 0]
Undefined == [t |-> "undefined", s |-> <<>>, n |-> 0]

\* ToBoolean
Truthy(v) ==
  CASE v.t = "str" -> v.s # <<>>
    [] v.t = "num" -> v.n # 0
    [] OTHER -> FALSE

\* a || b
Or(a, b) == IF Truthy(a) THEN a ELSE b

\* An object is the sequence of its own properties in insertion order.
HasKey(obj, k) == \E i \in 1..Len(obj) : obj[i].k = k

Get(obj, k) ==
  IF HasKey(obj, k)
  THEN obj[CHOOSE i \in 1..Len(obj) : obj[i].k = k].v
  ELSE Undefined

\* obj[k] = v : an existing property keeps its position
Set(obj, k, v) ==
  IF HasKey(obj, k)
  THEN [i \in 1..Len(obj) |-> IF obj[i].k = k THEN [k |-> k, v |-> v] ELSE obj[i]]
  ELSE Append(obj, [k |-> k, v |-> v])

\* JSON.stringify: the properties in insertion order, undefined ones left out
KeepDefined(p) == p.v.t # "undefined"
JSONstringify(obj) == SelectSeq(obj, KeepDefined)

\* parseInt: the leading number of the string, NaN when there is none
NumTokens == {"0", "10", "60"}
NumVal(tok) == CASE tok = "0" -> 0 [] tok = "10" -> 10 [] tok = "60" -> 60
parseInt(v) ==
  IF v.t = "str" /\ v.s # <<>> /\ Head(v.s) \in NumTokens
  THEN Num(NumVal(Head(v.s)))
  ELSE NaN

\* ===================================================================
\* Parsers
\* ===================================================================

IdTokens == {"ID1", "ID2", "ID3"}
UrlKinds == <<"track", "album", "artist", "playlist">>

\* url.match(/spotify\.com\/<kind>\/([a-zA-Z0-9]+)/)
MatchAt(url, kind, i) ==
  /\ i + 3 <= Len(url)
  /\ url[i] = "spotify.com/"
  /\ url[i + 1] = kind
  /\ url[i + 2] = "/"
  /\ url[i + 3] \in IdTokens

Matches(url, kind) == \E i \in 1..Len(url) : MatchAt(url, kind, i)

MatchGroup(url, kind) ==
  LET i == CHOOSE j \in 1..Len(url) :
             /\ MatchAt(url, kind, j)
             /\ \A h \in 1..(j - 1) : ~MatchAt(url, kind, h)
  IN <<url[i + 3]>>

extractIdFromUrl(url) ==
  IF \E p \in 1..Len(UrlKinds) : Matches(url, UrlKinds[p])
  THEN LET p == CHOOSE q \in 1..Len(UrlKinds) :
                  /\ Matches(url, UrlKinds[q])
                  /\ \A h \in 1..(q - 1) : ~Matches(url, UrlKinds[h])
       IN [ok |-> TRUE, id |-> Str(MatchGroup(url, UrlKinds[p])), error |-> ""]
  ELSE [ok |-> FALSE, id |-> Undefined,
        error |-> "Could not extract ID from Spotify URL"]

\* the loop over the non-blank lines: config[key] = value when both are non-empty
NonBlank(line) == Trim(line) # <<>>

RECURSIVE ReadLines(_, _)
ReadLines(lines, config) ==
  IF lines = <<>> THEN config
  ELSE LET parts == SplitColon(Head(lines))
           key == Trim(parts[1])
           value == IF Len(parts) >= 2 THEN Trim(parts[2]) ELSE <<>>
       IN ReadLines(Tail(lines),
                    IF key # <<>> /\ value # <<>>
                    THEN Set(config, key, Str(value))
                    ELSE config)

parseCodeBlockConfig(source, stg) ==
  LET c0 == ReadLines(SelectSeq(source, NonBlank), <<>>)
      c1 == Set(c0, <<"type">>, Or(Get(c0, <<"type">>), Str(<<"playlist">>)))
      url == Get(c1, <<"url">>)
      ex == IF Truthy(url) THEN extractIdFromUrl(url.s)
            ELSE [ok |-> TRUE, id |-> Undefined, error |-> ""]
      needUrl == ~Truthy(Get(c1, <<"id">>))
      c2 == Set(c1, <<"id">>, IF needUrl THEN ex.id ELSE Get(c1, <<"id">>))
      c3 == Set(c2, <<"layout">>, Or(Get(c2, <<"layout">>), Str(stg.defaultLayout)))
      c4 == Set(c3, <<"limit">>, Or(parseInt(Get(c3, <<"limit">>)), Num(stg.maxResults)))
  IN IF needUrl /\ ~ex.ok THEN [ok |-> FALSE, config |-> <<>>, error |-> ex.error]
     ELSE IF ~Truthy(Get(c4, <<"id">>))
     THEN [ok |-> FALSE, config |-> <<>>, error |-> "No Spotify ID given"]
     ELSE [ok |-> TRUE, config |-> c4, error |-> ""]

\* parseSearchCodeBlockConfig: starts from { type: 'search' }, never throws
parseSearchCodeBlockConfig(source, stg) ==
  LET c0 == ReadLines(SelectSeq(source, NonBlank), <<[k |-> <<"type">>, v |-> Str(<<"search">>)]>>)
      c1 == Set(c0, <<"searchType">>, Or(Get(c0, <<"searchType">>), Str(<<"track">>)))
      c2 == Set(c1, <<"layout">>, Or(Get(c1, <<"layout">>), Str(stg.defaultLayout)))
      c3 == Set(c2, <<"limit">>, Or(parseInt(Get(c2, <<"limit">>)), Num(stg.maxResults)))
  IN c3

\* href.replace('spotify:', ''): the first occurrence is taken out
RECURSIVE DropScheme(_)
DropScheme(h) ==
  IF Len(h) < 2 THEN h
  ELSE IF h[1] = "spotify" /\ h[2] = ":" THEN SubSeq(h, 3, Len(h))
  ELSE <<Head(h)>> \o DropScheme(Tail(h))

\* parseInlineLink: spotify:type:id
parseInlineLink(href) ==
  LET parts == SplitColon(DropScheme(href))
  IN IF Len(parts) # 2
     THEN [ok |-> FALSE, config |-> <<>>, error |-> "Invalid Spotify link format"]
     ELSE [ok |-> TRUE,
           config |-> <<[k |-> <<"type">>, v |-> Str(parts[1])],
                        [k |-> <<"id">>, v |-> Str(parts[2])],
                        [k |-> <<"layout">>, v |-> Str(<<"inline">>)]>>,
           error |-> ""]

\* ------------------------------------------------- the code blocks rendered
Line(k, v) == <<k, ":", " ">> \o v
UrlOf(kind, id) == <<"https", ":", "//open.", "spotify.com/", kind, "/", id>>

SrcTrackId == <<Line("type", <<"track">>), Line("id", <<"ID1">>)>>
SrcTrackIdSwapped == <<Line("id", <<"ID1">>), Line("type", <<"track">>)>>
SrcTrackUrl == <<Line("type", <<"track">>), Line("url", UrlOf("track", "ID1"))>>
SrcAlbumId == <<Line("type", <<"album">>), Line("id", <<"ID2">>)>>
SrcArtistId == <<Line("type", <<"artist">>), Line("id", <<"ID3">>)>>

Sources == {SrcTrackId, SrcTrackIdSwapped, SrcTrackUrl, SrcAlbumId, SrcArtistId}

\* more code blocks, inline links and search blocks a note may hold
SrcPlaylistId == <<Line("type", <<"playlist">>), Line("id", <<"ID2">>)>>
SrcPodcast == <<Line("type", <<"podcast">>), Line("id", <<"ID1">>)>>
SrcNoType == <<Line("id", <<"ID1">>)>>
SrcNoId == <<Line("type", <<"track">>)>>
SrcTrackExtra ==
  <<Line("type", <<"track">>), Line("id", <<"ID1">>), Line("color", <<"red">>)>>
SrcTrackLimit60 ==
  <<Line("type", <<"track">>), Line("id", <<"ID1">>), Line("limit", <<"60">>)>>

EntrySources ==
  {SrcTrackId, SrcPodcast, SrcNoType, SrcNoId, SrcTrackExtra, SrcTrackLimit60}

HrefTrack == <<"spotify", ":", "track", ":", "ID1">>
HrefShow == <<"spotify", ":", "show", ":", "ID1">>
HrefNoId == <<"spotify", ":", "track">>
Hrefs == {HrefTrack, HrefShow, HrefNoId}

SrcSearchTrack == <<Line("searchType", <<"track">>)>>
SrcSearchLimit60 == <<Line("searchType", <<"album">>), Line("limit", <<"60">>)>>
SearchSources == {SrcSearchTrack, SrcSearchLimit60}

\* what the user types into the search box
Queries == {<<"q1">>, <<" ">>}

DefaultSettings == [defaultLayout |-> <<"card">>, maxResults |-> DefaultMaxResults]

\* the settings blob on disk when the plugin is constructed (loadData)
SavedBlobs ==
  { [clientId |-> c[1], clientSecret |-> c[2], accessToken |-> Null, tokenExpiresAt |-> Null] :
      c \in {<<"", "">>, <<"cid", "wrong">>, <<"cid", "secret">>} }

\* expires_in values the token endpoint answers with (units of 2.5 minutes)
ExpiresIn == {3}
\* the JSON bodies the Spotify API may answer a request with (versions of the
\* resource); NoBody stands for null
Bodies == {"v1", "v2"}
NoBody == "null"

VARIABLES
  now,          \* Date.now()
  phase,        \* "constructed", "loaded" (onload ran)
  cache,        \* this.cache : cacheKey -> [data, timestamp]
  storedBy,     \* history: the task whose fetch stored cache[key]
  accessToken,  \* this.accessToken
  tokenExpiry,  \* this.tokenExpiry
  settings,     \* this.settings
  saved,        \* the settings blob on disk (saveData / loadData)
  pc,           \* per code block: "idle", "interface" (search box shown),
                \* "fetching", "done", "failed"
  config,       \* per code block: the config of its running fetchSpotifyData call,
                \* or the config its search box keeps
  result,       \* per code block: the data fetchSpotifyData returned
  err,          \* per code block: the error thrown to processSpotifyCodeBlock
  el,           \* per code block: what its target element shows: "empty",
                \* "content", "error", "interface" (the search box)
  entry,        \* per code block: the handler that serves it: "none", "block",
                \* "inline", "search"
  req,          \* per code block: its makeSpotifyRequest calls
  boot,         \* the authenticateSpotify call of onload: "none", "authWait",
                \* "saveWait", "done"
  button,       \* per search box: searchButton.disabled
  target,       \* per performSearch call: the code block whose results
                \* container it renders into
  shows,        \* per search box: the performSearch call whose outcome the
                \* results container shows, 0 for none
  test,         \* the Test Connection click of the settings tab
  pl            \* a fetchPlaylist call of the paging revision

cacheVars == <<cache, storedBy>>
credVars == <<accessToken, tokenExpiry, settings, saved>>
taskVars == <<pc, config, result, err, el, entry>>
uiVars == <<button, target, shows, test, pl>>
vars == <<now, phase, cacheVars, credVars, taskVars, req, boot, uiVars>>

SubIdx == 1..3
NoErr == [kind |-> "none", status |-> 0]
ApiError(status) == [kind |-> "api", status |-> status]
\* a makeSpotifyRequest call: st is "none", "authWait" (token exchange sent),
\* "saveWait" (saveSettings awaited), "apiWait" (API request sent), "ok",
\* "settled" (its fetch has settled and reads it no more); auth is the outcome
\* of its token exchange, token the bearer token of its API request, stale the
\* expired token getValidAccessToken found held, body the parsed response
NoReq == [st |-> "none", auth |-> "none", token |-> Null, stale |-> Null,
          body |-> NoBody]

\* the Test Connection click: st is "none", "authWait" (token exchange sent),
\* "saveWait" (saveSettings awaited), "done"; ok is what authenticateSpotify
\* returned, notices the Notices shown since the click
NoTest == [st |-> "none", ok |-> FALSE, notices |-> {}]

\* a fetchPlaylist call: st is "idle", "playlistWait" (the playlist request
\* sent), "pageWait" (a page request of fetchAllPlaylistTracks sent), "done",
\* "failed"; call is the method called; total is the number of tracks of the playlist, offset the offset
\* of the loop, tracks the items collected, offsets the offset of every page
\* request sent, items the tracks.items of the playlist returned
NoPlaylist(n) ==
  [st |-> "idle", call |-> "none", total |-> n, offset |-> 0, tracks |-> <<>>,
   offsets |-> <<>>, items |-> <<>>]

UiInit ==
  /\ button = [t \in Tasks |-> FALSE]
  /\ target = [t \in Tasks |-> t]
  /\ shows = [t \in Tasks |-> 0]
  /\ test = NoTest
  /\ pl = NoPlaylist(0)

\* ===================================================================
\* Credential Manager
\* ===================================================================

\* an access token, told apart by the time the server lets it expire
Token(exp) == <<exp>>

\* ToNumber(this.tokenExpiry): null converts to 0
ToNumber(x) == IF x = Null THEN 0 ELSE x[1]

\* the test of getValidAccessToken
NeedsExchange == accessToken = Null \/ now >= ToNumber(tokenExpiry)

\* the token endpoint accepts these client credentials
CredentialsGood == settings.clientId = "cid" /\ settings.clientSecret = "secret"

\* authenticateSpotify, from a 2xx response up to the await of saveSettings
AuthSuccess(e) ==
  /\ accessToken' = Token(now + e)
  /\ tokenExpiry' = <<now + e>>
  /\ settings' = [settings EXCEPT !.accessToken = Token(now + e),
                                  !.tokenExpiresAt = <<now + e>>]
  /\ saved' = [clientId |-> settings.clientId, clientSecret |-> settings.clientSecret,
               accessToken |-> Token(now + e), tokenExpiresAt |-> <<now + e>>]

\* a catch branch that wipes the saved token
AuthFailureWipesSaved ==
  /\ saved' = [saved EXCEPT !.accessToken = Null, !.tokenExpiresAt = Null]
  /\ UNCHANGED <<accessToken, tokenExpiry, settings>>

\* authenticateSpotify, the catch branch: a Notice, return false
AuthFailure == UNCHANGED credVars

\* ===================================================================
\* Data Fetcher
\* ===================================================================

\* the cache test with the comparison turned around
CacheHitInverted(key) ==
  /\ key \in DOMAIN cache
  /\ now - cache[key].timestamp > cacheTimeout

\* the cache test with the boundary counted as fresh
CacheHitInclusive(key) ==
  /\ key \in DOMAIN cache
  /\ now - cache[key].timestamp <= cacheTimeout

\* the cache test of fetchSpotifyData
CacheHit(key) ==
  /\ key \in DOMAIN cache
  /\ now - cache[key].timestamp < cacheTimeout

\* a switch whose default branch sends a request like the others
NumSubsDefaultFetches(cfg) ==
  LET type == Get(cfg, <<"type">>).s
  IN CASE type = <<"album">> -> 2
       [] type = <<"artist">> -> 3
       [] OTHER -> 1

\* a switch whose playlist branch also asks for a page of tracks
NumSubsPlaylistPaged(cfg) ==
  LET type == Get(cfg, <<"type">>).s
  IN CASE type = <<"track">> -> 1
       [] type = <<"album">> -> 2
       [] type = <<"artist">> -> 3
       [] type = <<"playlist">> -> 2
       [] type = <<"search">> -> 1
       [] OTHER -> 0

\* the number of makeSpotifyRequest calls the switch of fetchSpotifyData starts
NumSubs(cfg) ==
  LET type == Get(cfg, <<"type">>).s
  IN CASE type = <<"track">> -> 1
       [] type = <<"album">> -> 2
       [] type = <<"artist">> -> 3
       [] type = <<"playlist">> -> 1
       [] type = <<"search">> -> 1
       [] OTHER -> 0

\* makeSpotifyRequest up to its first await that waits for the network:
\* getValidAccessToken either starts a token exchange or hands the held token
StartRequest ==
  IF NeedsExchange
  THEN [NoReq EXCEPT !.st = "authWait", !.stale = accessToken]
  ELSE [NoReq EXCEPT !.st = "apiWait", !.token = accessToken]

\* this.cache.set(cacheKey, { data, timestamp: Date.now() })
CacheSet(key, data) ==
  [k \in DOMAIN cache \cup {key} |->
     IF k = key THEN [data |-> data, timestamp |-> now] ELSE cache[k]]

StoredBySet(key, t) ==
  [k \in DOMAIN storedBy \cup {key} |-> IF k = key THEN t ELSE storedBy[k]]

\* the makeSpotifyRequest calls made so far
Started == Cardinality({x \in Tasks \X SubIdx : req[x[1]][x[2]].st # "none"})

\* renderError: the element is emptied and shows the error block
renderError == "error"

\* fetchSpotifyData returned null (a 204 answer to its only request)
IsNullData(data) == data = <<NoBody>>

\* renderSpotifyData: the renderer of the type, which throws on null data into
\* the catch of renderSpotifyData; renderError for any other type
renderSpotifyData(data, cfg) ==
  IF Get(cfg, <<"type">>).s \in {<<"track">>, <<"album">>, <<"artist">>, <<"playlist">>}
  THEN IF IsNullData(data) THEN renderError ELSE "content"
  ELSE renderError

\* renderSearchResults reads results[searchType + 's'], which throws on null
\* into the catch of performSearch
renderSearchResults(data, cfg) ==
  IF IsNullData(data) THEN renderError ELSE "content"

\* a handler without a catch around its fetch: a failure leaves the element
\* as it was
ShownUncaught(kind, cfg, p, data, before) ==
  CASE p = "done" -> IF kind = "search" THEN renderSearchResults(data, cfg)
                     ELSE renderSpotifyData(data, cfg)
    [] OTHER -> before

\* what the handler of kind leaves in its target element once its
\* fetchSpotifyData call has settled as p
Shown(kind, cfg, p, data, before) ==
  CASE p = "failed" -> renderError
    [] p = "done" -> IF kind = "search" THEN renderSearchResults(data, cfg)
                     ELSE renderSpotifyData(data, cfg)
    [] OTHER -> before

\* fetchSpotifyData up to its first await: the cache lookup, then the switch
fetchSpotifyData(t, cfg) ==
  LET key == JSONstringify(cfg)
  IN IF CacheHit(key)
     THEN /\ pc' = [pc EXCEPT ![t] = "done"]
          /\ result' = [result EXCEPT ![t] = cache[key].data]
          /\ UNCHANGED <<config, err, req>>
     ELSE IF NumSubs(cfg) = 0
     THEN /\ pc' = [pc EXCEPT ![t] = "failed"]
          /\ err' = [err EXCEPT ![t] = [kind |-> "unknownType", status |-> 0]]
          /\ UNCHANGED <<config, result, req>>
     ELSE /\ Started + NumSubs(cfg) <= MaxRequests
          /\ pc' = [pc EXCEPT ![t] = "fetching"]
          /\ config' = [config EXCEPT ![t] = cfg]
          /\ req' = [req EXCEPT ![t] =
               [i \in SubIdx |-> IF i <= NumSubs(cfg) THEN StartRequest ELSE NoReq]]
          /\ UNCHANGED <<result, err>>

\* processSpotifyCodeBlock: parseCodeBlockConfig, then fetchSpotifyData
ProcessCodeBlock(t, source) ==
  /\ phase = "loaded"
  /\ pc[t] = "idle"
  \* the code blocks are numbered in the order they are rendered
  /\ \A u \in Tasks : u < t => pc[u] # "idle"
  /\ LET p == parseCodeBlockConfig(source, settings)
     IN IF ~p.ok
        THEN /\ pc' = [pc EXCEPT ![t] = "failed"]
             /\ err' = [err EXCEPT ![t] = [kind |-> "config", status |-> 0]]
             /\ UNCHANGED <<config, result, req>>
        ELSE fetchSpotifyData(t, p.config)
  /\ entry' = [entry EXCEPT ![t] = "block"]
  /\ el' = [el EXCEPT ![t] =
       Shown("block", parseCodeBlockConfig(source, settings).config,
             pc'[t], result'[t], @)]
  /\ UNCHANGED <<now, phase, cacheVars, credVars, boot, uiVars>>

\* processInlineLinks, for one link: parseInlineLink, then fetchSpotifyData
ProcessInlineLink(t, href) ==
  /\ phase = "loaded"
  /\ pc[t] = "idle"
  /\ \A u \in Tasks : u < t => pc[u] # "idle"
  /\ LET p == parseInlineLink(href)
     IN IF ~p.ok
        THEN /\ pc' = [pc EXCEPT ![t] = "failed"]
             /\ err' = [err EXCEPT ![t] = [kind |-> "config", status |-> 0]]
             /\ UNCHANGED <<config, result, req>>
        ELSE fetchSpotifyData(t, p.config)
  /\ entry' = [entry EXCEPT ![t] = "inline"]
  /\ el' = [el EXCEPT ![t] =
       Shown("inline", parseInlineLink(href).config, pc'[t], result'[t], @)]
  /\ UNCHANGED <<now, phase, cacheVars, credVars, boot, uiVars>>

\* processSpotifySearchCodeBlock: parseSearchCodeBlockConfig, then
\* renderSearchInterface, which keeps the config for performSearch
ProcessSearchCodeBlock(t, source) ==
  /\ phase = "loaded"
  /\ pc[t] = "idle"
  /\ \A u \in Tasks : u < t => pc[u] # "idle"
  /\ pc' = [pc EXCEPT ![t] = "interface"]
  /\ config' = [config EXCEPT ![t] = parseSearchCodeBlockConfig(source, settings)]
  /\ entry' = [entry EXCEPT ![t] = "search"]
  /\ el' = [el EXCEPT ![t] = "interface"]
  /\ UNCHANGED <<now, phase, cacheVars, credVars, boot, result, err, req, uiVars>>

\* the config performSearch hands to fetchSpotifyData
searchConfig(cfg, query) ==
  <<[k |-> <<"type">>, v |-> Str(<<"search">>)],
    [k |-> <<"query">>, v |-> Str(query)],
    [k |-> <<"searchType">>, v |-> Or(Get(cfg, <<"searchType">>), Str(<<"track">>))],
    [k |-> <<"limit">>, v |-> Or(Get(cfg, <<"limit">>), Num(20))]>>

\* performSearch: a click on Search or Enter in the search box
PerformSearch(t, typed) ==
  /\ pc[t] = "interface"
  /\ Trim(typed) # <<>>
  /\ fetchSpotifyData(t, searchConfig(config[t], Trim(typed)))
  /\ el' = [el EXCEPT ![t] =
       Shown("search", searchConfig(config[t], Trim(typed)), pc'[t], result'[t], @)]
  \* searchButton.disabled = true, and false again in the finally block
  /\ button' = [button EXCEPT ![t] = pc'[t] = "fetching"]
  /\ shows' = [shows EXCEPT ![t] = IF pc'[t] = "fetching" THEN @ ELSE t]
  /\ UNCHANGED <<now, phase, cacheVars, credVars, boot, entry, target, test, pl>>

\* performSearch called by Enter in the search box of code block b while an
\* earlier call of the box is awaiting fetchSpotifyData: the keypress listener
\* does not look at the button; t is the new call
PerformSearchAgain(b, t, typed) ==
  /\ entry[b] = "search" /\ target[b] = b
  /\ pc[b] = "fetching"
  /\ pc[t] = "idle"
  /\ \A u \in Tasks : u < t => pc[u] # "idle"
  /\ Trim(typed) # <<>>
  /\ fetchSpotifyData(t, searchConfig(config[b], Trim(typed)))
  /\ entry' = [entry EXCEPT ![t] = "search"]
  /\ target' = [target EXCEPT ![t] = b]
  /\ el' = [el EXCEPT ![b] =
       Shown("search", searchConfig(config[b], Trim(typed)), pc'[t], result'[t], @)]
  /\ button' = [button EXCEPT ![b] = pc'[t] = "fetching"]
  /\ shows' = [shows EXCEPT ![b] = IF pc'[t] = "fetching" THEN @ ELSE t]
  /\ UNCHANGED <<now, phase, cacheVars, credVars, boot, test, pl>>

\* -------------------------------------------------- token exchange answers
\* the token endpoint answers 200 to the exchange of sub-request i of task t
AuthOk(t, i, e) ==
  /\ req[t][i].st = "authWait"
  /\ CredentialsGood
  /\ AuthSuccess(e)
  /\ req' = [req EXCEPT ![t][i].st = "saveWait", ![t][i].auth = "ok"]
  /\ UNCHANGED <<now, phase, cacheVars, taskVars, boot, uiVars>>

\* what makeSpotifyRequest does with the value getValidAccessToken returns:
\* the API request is sent with it as bearer token
SendRequest(r, handed) == [r EXCEPT !.st = "apiWait", !.token = handed, !.stale = Null]

\* the token endpoint answers a non-2xx status, or fetch throws:
\* getValidAccessToken returns this.accessToken
AuthFail(t, i) ==
  /\ req[t][i].st = "authWait"
  /\ AuthFailure
  /\ req' = [req EXCEPT ![t][i] = SendRequest([@ EXCEPT !.auth = "fail"], accessToken)]
  /\ UNCHANGED <<now, phase, cacheVars, taskVars, boot, uiVars>>

\* await this.saveSettings() returns; getValidAccessToken returns
\* this.accessToken
SaveDone(t, i) ==
  /\ req[t][i].st = "saveWait"
  /\ req' = [req EXCEPT ![t][i] = SendRequest(@, accessToken)]
  /\ UNCHANGED <<now, phase, cacheVars, credVars, taskVars, boot, uiVars>>

\* ------------------------------------------------------ Spotify API answers
\* the Spotify API accepts the bearer token of the request
TokenAccepted(tok) == tok # Null /\ now < tok[1]

\* fetchTrack / fetchAlbum / fetchArtist / fetchPlaylist / searchSpotify once
\* every makeSpotifyRequest has resolved: album and artist read a property of
\* each response (tracks.items, topTracks.tracks, albums.items) and set one on
\* the first, which throws a TypeError on null
fetchMerge(cfg, bodies) ==
  IF Len(bodies) > 1 /\ \E j \in 1..Len(bodies) : bodies[j] = NoBody
  THEN [ok |-> FALSE, data |-> <<>>, err |-> [kind |-> "type", status |-> 0]]
  ELSE [ok |-> TRUE, data |-> bodies, err |-> NoErr]

\* a failing fetch that stores what it has got so far
FetchFailsCachingPartial(t, e) ==
  /\ pc' = [pc EXCEPT ![t] = "failed"]
  /\ err' = [err EXCEPT ![t] = e]
  /\ cache' = CacheSet(JSONstringify(config[t]), <<>>)
  /\ storedBy' = StoredBySet(JSONstringify(config[t]), t)
  /\ config' = [config EXCEPT ![t] = <<>>]
  /\ UNCHANGED result

\* a failing fetch that falls back on the entry the cache holds, however old
FetchFailsStaleFallback(t, e) ==
  IF JSONstringify(config[t]) \in DOMAIN cache
  THEN /\ pc' = [pc EXCEPT ![t] = "done"]
       /\ result' = [result EXCEPT ![t] = cache[JSONstringify(config[t])].data]
       /\ config' = [config EXCEPT ![t] = <<>>]
       /\ UNCHANGED <<err, cacheVars>>
  ELSE /\ pc' = [pc EXCEPT ![t] = "failed"]
       /\ err' = [err EXCEPT ![t] = e]
       /\ config' = [config EXCEPT ![t] = <<>>]
       /\ UNCHANGED <<result, cacheVars>>

\* fetchSpotifyData throws e to its caller
FetchFails(t, e) ==
  /\ pc' = [pc EXCEPT ![t] = "failed"]
  /\ err' = [err EXCEPT ![t] = e]
  /\ config' = [config EXCEPT ![t] = <<>>]
  /\ UNCHANGED <<result, cacheVars>>

\* fetchSpotifyData stores data in the cache and returns it
FetchReturns(t, data) ==
  /\ pc' = [pc EXCEPT ![t] = "done"]
  /\ result' = [result EXCEPT ![t] = data]
  /\ cache' = CacheSet(JSONstringify(config[t]), data)
  /\ storedBy' = StoredBySet(JSONstringify(config[t]), t)
  /\ config' = [config EXCEPT ![t] = <<>>]
  /\ UNCHANGED err

\* the rest of makeSpotifyRequest once fetch(url) has settled, and what the
\* Promise.all of the caller and the rest of fetchSpotifyData do with it
Respond(t, i, ok, body, e) ==
  /\ req[t][i].st = "apiWait"
  /\ LET r1 == [req[t] EXCEPT ![i] = [NoReq EXCEPT !.st = IF ok THEN "ok" ELSE "settled",
                                                   !.body = body]]
         n == NumSubs(config[t])
         m == fetchMerge(config[t], [j \in 1..n |-> r1[j].body])
         \* a settled fetch reads no response any more
         settled == [j \in SubIdx |->
                       IF r1[j].st = "ok" THEN [NoReq EXCEPT !.st = "settled"] ELSE r1[j]]
     IN IF pc[t] # "fetching"
        THEN /\ req' = [req EXCEPT ![t] = settled]
             /\ UNCHANGED <<pc, config, result, err, cacheVars>>
        ELSE IF ~ok
        THEN /\ req' = [req EXCEPT ![t] = settled]
             /\ FetchFails(t, e)
        ELSE IF \E j \in 1..n : r1[j].st # "ok"
        THEN /\ req' = [req EXCEPT ![t] = r1]
             /\ UNCHANGED <<pc, config, result, err, cacheVars>>
        ELSE IF ~m.ok
        THEN /\ req' = [req EXCEPT ![t] = settled]
             /\ FetchFails(t, m.err)
        ELSE /\ req' = [req EXCEPT ![t] = settled]
             /\ FetchReturns(t, m.data)
  \* the handler that awaited the fetch renders its outcome
  /\ el' = [el EXCEPT ![target[t]] =
       IF pc[t] = "fetching"
       THEN Shown(entry[t], config[t], pc'[t], result'[t], @)
       ELSE @]
  \* performSearch: the results container shows the outcome of this call, and
  \* the finally block enables the button
  /\ IF entry[t] = "search" /\ pc[t] = "fetching" /\ pc'[t] # "fetching"
     THEN /\ shows' = [shows EXCEPT ![target[t]] = t]
          /\ button' = [button EXCEPT ![target[t]] = FALSE]
     ELSE UNCHANGED <<shows, button>>
  /\ UNCHANGED <<now, phase, credVars, boot, entry, target, test, pl>>

\* status 200 with a JSON body
ApiOk200(t, i, body) ==
  /\ TokenAccepted(req[t][i].token)
  /\ Respond(t, i, TRUE, body, NoErr)

\* status 204: return null
ApiOk204(t, i) ==
  /\ TokenAccepted(req[t][i].token)
  /\ Respond(t, i, TRUE, NoBody, NoErr)

\* a status outside 200..299: 401 for a token the API rejects, else 404
ApiErrStatus(t, i) ==
  Respond(t, i, FALSE, NoBody,
          ApiError(IF TokenAccepted(req[t][i].token) THEN 404 ELSE 401))

\* the bodies of a non-2xx answer: { error: { message } }, an object without
\* error.message, text that is not JSON, the JSON text null
ErrorBodies == {"message", "noMessage", "notJson", "null"}

\* the error makeSpotifyRequest throws for a response that is not ok:
\* errorData = await response.json().catch(() => ({})), then
\* errorData.error?.message || response.statusText goes into the message;
\* reading .error of null throws a TypeError instead
makeSpotifyRequestError(status, ebody) ==
  LET errorData == IF ebody = "notJson" THEN "noMessage" ELSE ebody
  IN IF errorData = "null"
     THEN [kind |-> "type", status |-> 0, message |-> "Cannot read properties of null"]
     ELSE [kind |-> "api", status |-> status,
           message |-> IF errorData = "message" THEN "error.message" ELSE "statusText"]

\* a status outside 200..299 with an error body
ApiErrBody(t, i, ebody) ==
  Respond(t, i, FALSE, NoBody,
          makeSpotifyRequestError(IF TokenAccepted(req[t][i].token) THEN 404 ELSE 401,
                                  ebody))

\* fetch(url) rejects (network failure)
ApiThrow(t, i) ==
  Respond(t, i, FALSE, NoBody, [kind |-> "network", status |-> 0])

\* ===================================================================
\* Plugin lifecycle and settings tab
\* ===================================================================

EmptySettings ==
  [clientId |-> "", clientSecret |-> "", defaultLayout |-> <<>>, maxResults |-> 0,
   accessToken |-> Null, tokenExpiresAt |-> Null]

\* loadSettings: Object.assign({}, defaults, await this.loadData())
loadSettings(blob) ==
  [clientId |-> blob.clientId, clientSecret |-> blob.clientSecret,
   defaultLayout |-> DefaultSettings.defaultLayout,
   maxResults |-> DefaultSettings.maxResults,
   accessToken |-> blob.accessToken, tokenExpiresAt |-> blob.tokenExpiresAt]

\* onload up to the await of authenticateSpotify
Onload ==
  /\ phase = "constructed"
  /\ phase' = "loaded"
  /\ settings' = loadSettings(saved)
  /\ boot' = IF saved.clientId # "" /\ saved.clientSecret # ""
             THEN "authWait" ELSE "done"
  /\ UNCHANGED <<now, cacheVars, accessToken, tokenExpiry, saved, taskVars, req, uiVars>>

BootAuthOk(e) ==
  /\ boot = "authWait"
  /\ CredentialsGood
  /\ AuthSuccess(e)
  /\ boot' = "saveWait"
  /\ UNCHANGED <<now, phase, cacheVars, taskVars, req, uiVars>>

BootAuthFail ==
  /\ boot = "authWait"
  /\ AuthFailure
  /\ boot' = "done"
  /\ UNCHANGED <<now, phase, cacheVars, taskVars, req, uiVars>>

BootSaveDone ==
  /\ boot = "saveWait"
  /\ boot' = "done"
  /\ UNCHANGED <<now, phase, cacheVars, credVars, taskVars, req, uiVars>>

\* the Clear Cache button of the settings tab
ClearCache ==
  /\ phase = "loaded"
  /\ cache # <<>>
  /\ cache' = <<>>
  /\ storedBy' = <<>>
  /\ UNCHANGED <<now, phase, credVars, taskVars, req, boot, uiVars>>

\* an onunload that forgets the token but keeps its expiry
OnunloadKeepsExpiry ==
  /\ phase = "loaded"
  /\ phase' = "unloaded"
  /\ cache' = <<>>
  /\ storedBy' = <<>>
  /\ accessToken' = Null
  /\ UNCHANGED <<now, tokenExpiry, settings, saved, taskVars, req, boot, uiVars>>

\* onunload: this.cache.clear(), accessToken and tokenExpiry set to null; the
\* requests on the wire are not cancelled
Onunload ==
  /\ phase = "loaded"
  /\ phase' = "unloaded"
  /\ cache' = <<>>
  /\ storedBy' = <<>>
  /\ accessToken' = Null
  /\ tokenExpiry' = Null
  /\ UNCHANGED <<now, settings, saved, taskVars, req, boot, uiVars>>

\* the Test Connection button of the settings tab, up to the await of
\* authenticateSpotify
TestConnection ==
  /\ phase = "loaded"
  /\ test.st = "none"
  /\ test' = [test EXCEPT !.st = "authWait"]
  /\ UNCHANGED <<now, phase, cacheVars, credVars, taskVars, req, boot,
                 button, target, shows, pl>>

TestAuthOk(e) ==
  /\ test.st = "authWait"
  /\ CredentialsGood
  /\ AuthSuccess(e)
  /\ test' = [test EXCEPT !.st = "saveWait"]
  /\ UNCHANGED <<now, phase, cacheVars, taskVars, req, boot,
                 button, target, shows, pl>>

\* authenticateSpotify catches the failure, shows its Notice and returns
\* false; the click handler does not read the value: its try block goes on to
\* the success Notice
TestAuthFail ==
  /\ test.st = "authWait"
  /\ AuthFailure
  /\ test' = [st |-> "done", ok |-> FALSE,
              notices |-> {"authentication failed", "connection successful"}]
  /\ UNCHANGED <<now, phase, cacheVars, taskVars, req, boot,
                 button, target, shows, pl>>

\* saveSettings returns, authenticateSpotify returns true, the success Notice
TestSaveDone ==
  /\ test.st = "saveWait"
  /\ test' = [st |-> "done", ok |-> TRUE, notices |-> {"connection successful"}]
  /\ UNCHANGED <<now, phase, cacheVars, credVars, taskVars, req, boot,
                 button, target, shows, pl>>

\* ===================================================================
\* Environment
\* ===================================================================

Tick ==
  /\ now < MaxTime
  /\ now' = now + 1
  /\ UNCHANGED <<phase, cacheVars, credVars, taskVars, req, boot, uiVars>>

Init ==
  /\ now = 0
  /\ phase = "constructed"
  /\ cache = <<>>
  /\ storedBy = <<>>
  /\ accessToken = Null
  /\ tokenExpiry = Null
  /\ settings = EmptySettings
  /\ saved \in SavedBlobs
  /\ pc = [t \in Tasks |-> "idle"]
  /\ config = [t \in Tasks |-> <<>>]
  /\ result = [t \in Tasks |-> <<>>]
  /\ err = [t \in Tasks |-> NoErr]
  /\ el = [t \in Tasks |-> "empty"]
  /\ entry = [t \in Tasks |-> "none"]
  /\ req = [t \in Tasks |-> [i \in SubIdx |-> NoReq]]
  /\ boot = "none"
  /\ UiInit

Next ==
  \/ Onload
  \/ \E e \in ExpiresIn : BootAuthOk(e)
  \/ BootAuthFail
  \/ BootSaveDone
  \/ \E t \in Tasks, source \in Sources : ProcessCodeBlock(t, source)
  \/ \E t \in Tasks, i \in SubIdx, e \in ExpiresIn : AuthOk(t, i, e)
  \/ \E t \in Tasks, i \in SubIdx : AuthFail(t, i)
  \/ \E t \in Tasks, i \in SubIdx : SaveDone(t, i)
  \/ \E t \in Tasks, i \in SubIdx, body \in Bodies : ApiOk200(t, i, body)
  \/ \E t \in Tasks, i \in SubIdx : ApiOk204(t, i)
  \/ \E t \in Tasks, i \in SubIdx : ApiErrStatus(t, i)
  \/ \E t \in Tasks, i \in SubIdx : ApiThrow(t, i)
  \/ ClearCache
  \/ Tick

Spec == Init /\ [][Next]_vars

\* ===================================================================
\* Fetches of every content type, with client credentials the token endpoint
\* accepts and answers
\* ===================================================================

TypeSources == {SrcTrackId, SrcAlbumId, SrcArtistId, SrcPlaylistId}

TypesInit == Init /\ saved.clientSecret = "secret"

TypesNext ==
  \/ Onload
  \/ \E e \in ExpiresIn : BootAuthOk(e)
  \/ BootSaveDone
  \/ \E t \in Tasks, source \in TypeSources : ProcessCodeBlock(t, source)
  \/ \E t \in Tasks : ProcessSearchCodeBlock(t, SrcSearchTrack)
  \/ \E t \in Tasks, typed \in Queries : PerformSearch(t, typed)
  \/ \E t \in Tasks, i \in SubIdx, e \in ExpiresIn : AuthOk(t, i, e)
  \/ \E t \in Tasks, i \in SubIdx : SaveDone(t, i)
  \/ \E t \in Tasks, i \in SubIdx, body \in Bodies : ApiOk200(t, i, body)
  \/ \E t \in Tasks, i \in SubIdx : ApiErrStatus(t, i)
  \/ \E t \in Tasks, i \in SubIdx : ApiThrow(t, i)
  \/ Tick

SpecTypes == TypesInit /\ [][TypesNext]_vars

\* What the runtime guarantees to happen: time passes, and the write of the
\* settings file that saveSettings awaits completes.  The token endpoint and
\* the Spotify API owe no answer, and the plugin sets no timer on a request.
Fairness ==
  /\ WF_vars(Tick)
  /\ WF_vars(BootSaveDone)
  /\ \A t \in Tasks, i \in SubIdx : WF_vars(SaveDone(t, i))

SpecLive == Init /\ [][Next]_vars /\ Fairness

\* ===================================================================
\* Every entry point of the plugin, after a restart
\* ===================================================================

\* the settings blob a former run of the plugin left on disk: client
\* credentials, with or without the token authenticateSpotify saved
RestartBlobs ==
  { [clientId |-> "cid", clientSecret |-> "secret", accessToken |-> tok,
     tokenExpiresAt |-> tok] : tok \in {Null, Token(MaxTime)} }

EntryInit ==
  /\ now = 0
  /\ phase = "constructed"
  /\ cache = <<>>
  /\ storedBy = <<>>
  /\ accessToken = Null
  /\ tokenExpiry = Null
  /\ settings = EmptySettings
  /\ saved \in RestartBlobs
  /\ pc = [t \in Tasks |-> "idle"]
  /\ config = [t \in Tasks |-> <<>>]
  /\ result = [t \in Tasks |-> <<>>]
  /\ err = [t \in Tasks |-> NoErr]
  /\ el = [t \in Tasks |-> "empty"]
  /\ entry = [t \in Tasks |-> "none"]
  /\ req = [t \in Tasks |-> [i \in SubIdx |-> NoReq]]
  /\ boot = "none"
  /\ UiInit

EntryNext ==
  \/ Onload
  \/ \E e \in ExpiresIn : BootAuthOk(e)
  \/ BootAuthFail
  \/ BootSaveDone
  \/ \E t \in Tasks, source \in EntrySources : ProcessCodeBlock(t, source)
  \/ \E t \in Tasks, href \in Hrefs : ProcessInlineLink(t, href)
  \/ \E t \in Tasks, source \in SearchSources : ProcessSearchCodeBlock(t, source)
  \/ \E t \in Tasks, typed \in Queries : PerformSearch(t, typed)
  \/ \E t \in Tasks, i \in SubIdx, e \in ExpiresIn : AuthOk(t, i, e)
  \/ \E t \in Tasks, i \in SubIdx : AuthFail(t, i)
  \/ \E t \in Tasks, i \in SubIdx : SaveDone(t, i)
  \/ \E t \in Tasks, i \in SubIdx, body \in Bodies : ApiOk200(t, i, body)
  \/ \E t \in Tasks, i \in SubIdx : ApiOk204(t, i)
  \/ \E t \in Tasks, i \in SubIdx, ebody \in ErrorBodies : ApiErrBody(t, i, ebody)
  \/ \E t \in Tasks, i \in SubIdx : ApiThrow(t, i)
  \/ Tick

SpecEntry == EntryInit /\ [][EntryNext]_vars

\* ===================================================================
\* Unload and the settings tab, with two code blocks of one track
\* ===================================================================

UnloadInit == Init /\ saved.clientSecret = "secret"

UnloadNext ==
  \/ Onload
  \/ \E e \in ExpiresIn : BootAuthOk(e)
  \/ BootAuthFail
  \/ BootSaveDone
  \/ \E t \in Tasks : ProcessCodeBlock(t, SrcTrackId)
  \/ \E t \in Tasks, i \in SubIdx, e \in ExpiresIn : AuthOk(t, i, e)
  \/ \E t \in Tasks, i \in SubIdx : AuthFail(t, i)
  \/ \E t \in Tasks, i \in SubIdx : SaveDone(t, i)
  \/ \E t \in Tasks, i \in SubIdx, body \in Bodies : ApiOk200(t, i, body)
  \/ \E t \in Tasks, i \in SubIdx : ApiErrStatus(t, i)
  \/ \E t \in Tasks, i \in SubIdx : ApiThrow(t, i)
  \/ ClearCache
  \/ TestConnection
  \/ \E e \in ExpiresIn : TestAuthOk(e)
  \/ TestAuthFail
  \/ TestSaveDone
  \/ Onunload
  \/ Tick

SpecUnload == UnloadInit /\ [][UnloadNext]_vars

\* ===================================================================
\* A search box in which a second search is started while the first is on
\* the wire
\* ===================================================================

\* what the user types into the search box
SearchQueries == {<<"q1">>, <<"q2">>}

SearchInit == Init /\ saved.clientSecret = "secret"

SearchNext ==
  \/ Onload
  \/ \E e \in ExpiresIn : BootAuthOk(e)
  \/ BootSaveDone
  \/ \E t \in Tasks : ProcessSearchCodeBlock(t, SrcSearchTrack)
  \/ \E t \in Tasks, typed \in SearchQueries : PerformSearch(t, typed)
  \/ \E b \in Tasks, t \in Tasks, typed \in SearchQueries : PerformSearchAgain(b, t, typed)
  \/ \E t \in Tasks, i \in SubIdx, e \in ExpiresIn : AuthOk(t, i, e)
  \/ \E t \in Tasks, i \in SubIdx : AuthFail(t, i)
  \/ \E t \in Tasks, i \in SubIdx : SaveDone(t, i)
  \/ \E t \in Tasks, i \in SubIdx, body \in Bodies : ApiOk200(t, i, body)
  \/ \E t \in Tasks, i \in SubIdx : ApiErrStatus(t, i)
  \/ \E t \in Tasks, i \in SubIdx : ApiThrow(t, i)
  \/ Tick

SpecSearch == SearchInit /\ [][SearchNext]_vars

\* ===================================================================
\* Playlist paging (the revision of fetchPlaylist that fetches every page)
\* ===================================================================

\* const limit = 100 of fetchAllPlaylistTracks
limit == 100

\* the track items of a playlist of n tracks, in playlist order
PlaylistItems(n) == [i \in 1..n |-> i]

\* the items the API returns for /playlists/{id}/tracks?offset=..&limit=..
PageItems(n, offset, lim) ==
  IF offset >= n THEN <<>>
  ELSE SubSeq(PlaylistItems(n), offset + 1, IF offset + lim < n THEN offset + lim ELSE n)

\* a loop that also stops on a full page
LastPageInclusive(items) == Len(items) <= limit

\* the break test of the loop: response.items.length < limit
LastPage(items) == Len(items) < limit

\* fetchPlaylist up to its await of the /playlists/{id} request
FetchPlaylist ==
  /\ pl.st = "idle"
  /\ pl' = [pl EXCEPT !.st = "playlistWait", !.call = "fetchPlaylist"]
  /\ UNCHANGED <<now, phase, cacheVars, credVars, taskVars, req, boot,
                 button, target, shows, test>>

\* a call of fetchAllPlaylistTracks up to the await of its first page request
FetchAllPlaylistTracks ==
  /\ pl.st = "idle"
  /\ pl' = [pl EXCEPT !.st = "pageWait", !.call = "fetchAllPlaylistTracks",
                      !.offsets = <<0>>]
  /\ UNCHANGED <<now, phase, cacheVars, credVars, taskVars, req, boot,
                 button, target, shows, test>>

\* the playlist arrives, with tracks.total and its first page of items:
\* fetchPlaylist returns it, or calls fetchAllPlaylistTracks when
\* playlist.tracks.total > 100
PlaylistOk ==
  /\ pl.st = "playlistWait"
  /\ pl' = IF pl.total > 100
           THEN [pl EXCEPT !.st = "pageWait", !.offsets = <<0>>]
           ELSE [pl EXCEPT !.st = "done", !.items = PageItems(pl.total, 0, 100)]
  /\ UNCHANGED <<now, phase, cacheVars, credVars, taskVars, req, boot,
                 button, target, shows, test>>

\* a page arrives: tracks.push(...response.items), then break or
\* offset += limit and the next page request
PageOk ==
  /\ pl.st = "pageWait"
  /\ LET items == PageItems(pl.total, pl.offset, limit)
         tracks == pl.tracks \o items
     IN pl' = IF LastPage(items)
              THEN [pl EXCEPT !.st = "done", !.tracks = tracks, !.items = tracks]
              ELSE [pl EXCEPT !.tracks = tracks, !.offset = @ + limit,
                              !.offsets = Append(@, pl.offset + limit)]
  /\ UNCHANGED <<now, phase, cacheVars, credVars, taskVars, req, boot,
                 button, target, shows, test>>

\* makeSpotifyRequest throws: the call fails
PlaylistFail ==
  /\ pl.st \in {"playlistWait", "pageWait"}
  /\ pl' = [pl EXCEPT !.st = "failed"]
  /\ UNCHANGED <<now, phase, cacheVars, credVars, taskVars, req, boot,
                 button, target, shows, test>>

PagesInit ==
  /\ now = 0
  /\ phase = "constructed"
  /\ cache = <<>>
  /\ storedBy = <<>>
  /\ accessToken = Null
  /\ tokenExpiry = Null
  /\ settings = EmptySettings
  /\ saved = [clientId |-> "cid", clientSecret |-> "secret",
              accessToken |-> Null, tokenExpiresAt |-> Null]
  /\ pc = [t \in Tasks |-> "idle"]
  /\ config = [t \in Tasks |-> <<>>]
  /\ result = [t \in Tasks |-> <<>>]
  /\ err = [t \in Tasks |-> NoErr]
  /\ el = [t \in Tasks |-> "empty"]
  /\ entry = [t \in Tasks |-> "none"]
  /\ req = [t \in Tasks |-> [i \in SubIdx |-> NoReq]]
  /\ boot = "none"
  /\ button = [t \in Tasks |-> FALSE]
  /\ target = [t \in Tasks |-> t]
  /\ shows = [t \in Tasks |-> 0]
  /\ test = NoTest
  /\ \E n \in 0..MaxTracks : pl = NoPlaylist(n)

PagesNext ==
  \/ FetchPlaylist
  \/ FetchAllPlaylistTracks
  \/ PlaylistOk
  \/ PageOk
  \/ PlaylistFail

SpecPages == PagesInit /\ [][PagesNext]_vars

\* ===================================================================
\* Properties
\* ===================================================================

\* the cache key fetchSpotifyData computes for a code block
KeyOf(source) == JSONstringify(parseCodeBlockConfig(source, settings).config)
Parses(source) == parseCodeBlockConfig(source, settings).ok
\* the cache holds an entry for key that is younger than cacheTimeout
Fresh(key) == key \in DOMAIN cache /\ now - cache[key].timestamp < cacheTimeout
\* the cache holds an entry for key that is cacheTimeout old or older
Expired(key) == key \in DOMAIN cache /\ now - cache[key].timestamp >= cacheTimeout
\* a token exchange or an API request of task t is on the wire
InFlight(r) == r.st \in {"authWait", "saveWait", "apiWait"}
\* code block t is processed in this step
Processed(t) == pc[t] = "idle" /\ pc'[t] # "idle"
\* this step sends no HTTP request: no makeSpotifyRequest call and no token
\* exchange starts or moves on
NoHttp == req' = req /\ boot' = boot

\* C1: a fetch whose descriptor has a cache entry younger than cacheTimeout
\* sends no HTTP request and returns the payload that the fetch which stored
\* the entry returned.
C1_CacheIdempotence ==
  [][\A t \in Tasks, source \in Sources :
       (Processed(t) /\ Parses(source) /\ Fresh(KeyOf(source))
          /\ ProcessCodeBlock(t, source))
         => /\ pc'[t] = "done"
            /\ result'[t] = result[storedBy[KeyOf(source)]]
            /\ NoHttp
            /\ cache' = cache]_vars

\* a code block was served from the cache: it is done and made no request
C1_Witness ==
  \E t \in Tasks :
    /\ pc[t] = "done"
    /\ \A i \in SubIdx : req[t][i].st = "none"
    /\ \E key \in DOMAIN cache : storedBy[key] # t /\ result[t] = cache[key].data

\* C2: a fetch whose descriptor has an entry that is cacheTimeout old or older
\* (the boundary included) is not answered from the cache: its requests are
\* sent, and when it succeeds the entry is replaced by the new payload and the
\* time of the replacement.
C2_CacheExpiry ==
  [][\A t \in Tasks :
       /\ \A source \in Sources :
            (Processed(t) /\ Parses(source) /\ Expired(KeyOf(source))
               /\ ProcessCodeBlock(t, source))
              => /\ pc'[t] = "fetching"
                 /\ result'[t] = result[t]
                 /\ \A i \in 1..NumSubs(config'[t]) : InFlight(req'[t][i])
       /\ (pc[t] = "fetching" /\ pc'[t] = "done")
              => LET key == JSONstringify(config[t])
                 IN /\ cache'[key] = [data |-> result'[t], timestamp |-> now]
                    /\ \A k \in DOMAIN cache \ {key} : cache'[k] = cache[k]]_vars

\* a fetch is running for a descriptor whose entry is exactly cacheTimeout old
C2_Witness ==
  \E t \in Tasks :
    /\ pc[t] = "fetching"
    /\ JSONstringify(config[t]) \in DOMAIN cache
    /\ now - cache[JSONstringify(config[t])].timestamp = cacheTimeout

\* C3 (as claimed): after getValidAccessToken found an expired token held, the
\* value it hands to makeSpotifyRequest is never that token, whatever the
\* outcome of the exchange.
C3_NeverStaleToken ==
  [][\A t \in Tasks, i \in SubIdx :
       (req[t][i].st \in {"authWait", "saveWait"} /\ req'[t][i].st = "apiWait"
          /\ req[t][i].stale # Null)
         => req'[t][i].token # req[t][i].stale]_vars

\* C4: a step in which a fetch fails, or in which a request of a failed fetch
\* completes, leaves the cache as it was; a failing response fails the fetch;
\* no entry was stored by a fetch that failed.
C4_CompositeAtomicity ==
  [][\A t \in Tasks :
       /\ (pc[t] = "fetching" /\ pc'[t] = "failed") => cache' = cache
       /\ (pc[t] = "failed" /\ req'[t] # req[t]) => (cache' = cache /\ pc'[t] = "failed")
       /\ \A i \in SubIdx :
            (pc[t] = "fetching" /\ (ApiErrStatus(t, i) \/ ApiThrow(t, i)))
              => pc'[t] = "failed"
       /\ \A key \in DOMAIN storedBy' : pc'[storedBy'[key]] = "done"]_vars

\* a composite fetch has failed while another of its requests is still on the
\* wire
C4_Witness ==
  \E t \in Tasks :
    /\ pc[t] = "failed"
    /\ err[t].kind \in {"api", "network"}
    /\ \E i, j \in SubIdx : req[t][i].st = "settled" /\ InFlight(req[t][j])

\* a token exchange fails in this step
ExchangeFails ==
  \/ \E t \in Tasks, i \in SubIdx : req[t][i].auth = "none" /\ req'[t][i].auth = "fail"
  \/ boot = "authWait" /\ boot' = "done"

\* C5 (as claimed): after a token exchange that fails, accessToken is null.
C5_FailClosed == [][ExchangeFails => accessToken' = Null]_vars

\* two code blocks hold the same lines, in whatever order
SameLines(s1, s2) ==
  /\ Len(s1) = Len(s2)
  /\ {s1[i] : i \in 1..Len(s1)} = {s2[i] : i \in 1..Len(s2)}

\* C6 (as claimed): code blocks with the same lines in a different order have
\* the same cache key, so the second is served from the fresh entry of the
\* first without an HTTP request.
C6_KeyOrderIndependent ==
  [][\A t \in Tasks, s1 \in Sources, s2 \in Sources :
       (Processed(t) /\ SameLines(s1, s2) /\ Parses(s1) /\ Fresh(KeyOf(s1))
          /\ ProcessCodeBlock(t, s2))
         => (KeyOf(s2) = KeyOf(s1) /\ pc'[t] = "done" /\ NoHttp)]_vars

\* C7 (as claimed): a 204 response is a success: it does not fail the fetch
\* built on it.
C7_NoContentSucceeds ==
  [][\A t \in Tasks, i \in SubIdx :
       (pc[t] = "fetching" /\ ApiOk204(t, i)) => pc'[t] # "failed"]_vars

\* C8 (as claimed): a block that gives the url of a track parses to the
\* descriptor of the block that gives its id, and its fetch starts.
C8_UrlInsteadOfId ==
  [][\A t \in Tasks :
       (Processed(t) /\ ProcessCodeBlock(t, SrcTrackUrl))
         => /\ Parses(SrcTrackUrl)
            /\ Get(parseCodeBlockConfig(SrcTrackUrl, settings).config, <<"id">>)
                 = Str(<<"ID1">>)
            /\ pc'[t] \in {"fetching", "done"}]_vars

\* C9 (as claimed): when the token exchange of a request fails, no API request
\* is sent for it and its fetch fails.
C9_AuthErrorPropagates ==
  [][\A t \in Tasks, i \in SubIdx :
       (req[t][i].auth = "none" /\ req'[t][i].auth = "fail")
         => /\ req'[t][i].st # "apiWait"
            /\ pc[t] = "fetching" => pc'[t] = "failed"]_vars

\* C10 (as claimed): an API request is sent with the held token, without an
\* exchange, only while the token has more than bufferTime left.
C10_SafetyMargin ==
  [][\A t \in Tasks, i \in SubIdx :
       (req[t][i].st = "none" /\ req'[t][i].st = "apiWait")
         => now < ToNumber(tokenExpiry) - bufferTime]_vars

\* the five content types fetchSpotifyData knows
SupportedTypes == {<<"track">>, <<"album">>, <<"artist">>, <<"playlist">>, <<"search">>}
Unsupported(cfg) == Get(cfg, <<"type">>).s \notin SupportedTypes
\* a fetch that fails on its type: an unknown-type error for the handler, no
\* HTTP request, the cache as it was
FailsOnType(t) ==
  /\ pc'[t] = "failed"
  /\ err'[t].kind = "unknownType"
  /\ NoHttp
  /\ cache' = cache

\* C11: a fetch for a descriptor whose type is none of track, album, artist,
\* playlist, search fails with an unknown-type error, sends no HTTP request
\* (no token exchange, no API request) and leaves the cache unchanged.
C11_UnsupportedType ==
  [][\A t \in Tasks :
       /\ \A source \in EntrySources :
            (Processed(t) /\ Parses(source)
               /\ Unsupported(parseCodeBlockConfig(source, settings).config)
               /\ ProcessCodeBlock(t, source))
              => FailsOnType(t)
       /\ \A href \in Hrefs :
            (Processed(t) /\ parseInlineLink(href).ok
               /\ Unsupported(parseInlineLink(href).config)
               /\ ProcessInlineLink(t, href))
              => FailsOnType(t)]_vars

\* a code block and an inline link of an unsupported type have been processed
C11_Witness ==
  \E t, u \in Tasks :
    /\ entry[t] = "block" /\ pc[t] = "failed" /\ err[t].kind = "unknownType"
    /\ entry[u] = "inline" /\ pc[u] = "failed" /\ err[u].kind = "unknownType"
    /\ el[t] = "error" /\ el[u] = "error"

\* C12: no failure escapes to the host: an invocation of processSpotifyCodeBlock,
\* processSpotifySearchCodeBlock, processInlineLinks (one link) or performSearch
\* that has ended shows content or an error block in its target element,
\* whatever failed (parsing, token exchange, network, API, rendering); one that
\* ended with an error shows the error block.
C12_NoFailureEscapes ==
  \A t \in Tasks :
    /\ pc[t] = "failed" => el[t] = "error"
    /\ pc[t] = "done" => el[t] \in {"content", "error"}
    /\ pc[t] = "interface" => el[t] = "interface"
    /\ (pc[t] = "done" /\ el[t] = "error")
         => (IsNullData(result[t]) \/ entry[t] \in {"block", "inline"})

\* a search whose request failed on the network shows the error block, and a
\* code block whose fetch returned null shows the rendering error
C12_Witness ==
  \E t, u \in Tasks :
    /\ entry[t] = "search" /\ pc[t] = "failed" /\ err[t].kind = "network"
    /\ el[t] = "error"
    /\ entry[u] \in {"block", "inline"} /\ pc[u] = "done" /\ IsNullData(result[u])
    /\ el[u] = "error"

\* a token exchange succeeds in this step
ExchangeSucceeds ==
  \/ \E t \in Tasks, i \in SubIdx : req[t][i].auth = "none" /\ req'[t][i].auth = "ok"
  \/ boot = "authWait" /\ boot' = "saveWait"

\* C13: token persistence follows the outcome of the exchange: the step of a
\* successful exchange writes the settings blob once, holding the new token and
\* its expiry; no other step writes it: not the return of saveSettings, and not
\* a failed exchange, which leaves the saved token fields as they were.
C13_TokenPersistence ==
  [][/\ ExchangeSucceeds
          => /\ accessToken' # Null /\ ToNumber(tokenExpiry') > now
             /\ saved'.accessToken = accessToken'
             /\ saved'.tokenExpiresAt = tokenExpiry'
             /\ saved'.accessToken = settings'.accessToken
             /\ saved'.tokenExpiresAt = settings'.tokenExpiresAt
             /\ saved'.clientId = settings'.clientId
             /\ saved'.clientSecret = settings'.clientSecret
     /\ ~ExchangeSucceeds => saved' = saved
     /\ ExchangeFails => saved' = saved]_vars

\* one request's exchange has succeeded and been saved, another's has failed
C13_Witness ==
  \E t, u \in Tasks, i, j \in SubIdx :
    /\ req[t][i].auth = "ok"
    /\ req[u][j].auth = "fail"
    /\ saved.accessToken = accessToken /\ accessToken # Null

\* C14 (as claimed): a saved token survives a restart: when loadSettings loads
\* a blob that holds a token whose expiry has not been reached, the plugin
\* holds that token after onload and starts no token exchange.
C14_TokenSurvivesRestart ==
  [][(/\ phase = "constructed" /\ phase' = "loaded"
      /\ saved.accessToken # Null
      /\ now < ToNumber(saved.tokenExpiresAt))
       => (/\ accessToken' = saved.accessToken
           /\ tokenExpiry' = saved.tokenExpiresAt
           /\ boot' # "authWait")]_vars

\* C15 (as claimed): the limit of every parsed descriptor, and the limit a
\* search sends, lies in 5..50.
C15_LimitInRange ==
  \A t \in Tasks :
    (pc[t] \in {"fetching", "interface"} /\ HasKey(config[t], <<"limit">>))
      => /\ Get(config[t], <<"limit">>).t = "num"
         /\ Get(config[t], <<"limit">>).n \in 5..50

\* the code block has a line for key
HasLine(source, key) == \E i \in 1..Len(source) : Trim(SplitColon(source[i])[1]) = <<key>>
\* the code block lacks a required parameter: type, or both id and url
LacksRequired(source) ==
  \/ ~HasLine(source, "type")
  \/ ~HasLine(source, "id") /\ ~HasLine(source, "url")

\* C16 (as claimed): a code block that lacks type, or has neither id nor url,
\* is a configuration error: an error block is rendered, no HTTP request is
\* sent and the cache is not written.
C16_RequiredParameters ==
  [][\A t \in Tasks, source \in EntrySources :
       (Processed(t) /\ LacksRequired(source) /\ ProcessCodeBlock(t, source))
         => /\ pc'[t] = "failed"
            /\ err'[t].kind = "config"
            /\ el'[t] = "error"
            /\ NoHttp
            /\ cache' = cache]_vars

\* the keys the parsers read
RecognizedKeys == {"type", "id", "url", "layout", "limit", "searchType", "query"}
\* s2 is s1 with one more line, whose key is not recognized
WithExtraLine(s1, s2) ==
  \E i \in 1..Len(s2) :
    /\ \A key \in RecognizedKeys : Trim(SplitColon(s2[i])[1]) # <<key>>
    /\ s1 = SubSeq(s2, 1, i - 1) \o SubSeq(s2, i + 1, Len(s2))

\* C17 (as claimed): a block with an extra line of an unrecognized key parses
\* without error to the cache key of the block without that line, so it is
\* served from that block's fresh cache entry without an HTTP request.
C17_UnrecognizedKeysIgnored ==
  [][\A t \in Tasks, s1 \in EntrySources, s2 \in EntrySources :
       (Processed(t) /\ WithExtraLine(s1, s2) /\ Parses(s1) /\ Fresh(KeyOf(s1))
          /\ ProcessCodeBlock(t, s2))
         => (Parses(s2) /\ KeyOf(s2) = KeyOf(s1) /\ pc'[t] = "done" /\ NoHttp)]_vars

\* C18 (as claimed): for every answer outside 200..299 the error that
\* makeSpotifyRequest throws carries the status and, as message, the message
\* of the parsed body when it has one, else the status text.
C18_ErrorMapping ==
  [][\A t \in Tasks, i \in SubIdx, ebody \in ErrorBodies :
       (pc[t] = "fetching" /\ req[t][i].st = "apiWait" /\ ApiErrBody(t, i, ebody))
         => /\ pc'[t] = "failed"
            /\ err'[t].kind = "api"
            /\ err'[t].status = (IF TokenAccepted(req[t][i].token) THEN 404 ELSE 401)
            /\ err'[t].message =
                 (IF ebody = "message" THEN "error.message" ELSE "statusText")]_vars

\* C19 (as claimed): every fetch terminates: a fetchSpotifyData call that is
\* waiting for its requests eventually is done or has failed, also when a
\* token exchange or an API request never gets an answer.
C19_EveryFetchTerminates ==
  \A t \in Tasks : (pc[t] = "fetching") ~> (pc[t] \in {"done", "failed"})

\* the number of Spotify API requests of a fetch, by content type
RequestsOf(type) ==
  CASE type = <<"track">> -> 1
    [] type = <<"album">> -> 2
    [] type = <<"artist">> -> 3
    [] type = <<"playlist">> -> 1
    [] type = <<"search">> -> 1
\* the makeSpotifyRequest calls of task t in req
Issued(rq, t) == {i \in SubIdx : rq[t][i].st # "none"}

C22_SettlesAfterAll ==
  \A t \in Tasks :
    pc[t] \in {"done", "failed"} => \A i \in SubIdx : ~InFlight(req[t][i])

\* the token exchanges on the wire
ExchangesInFlight ==
  Cardinality({x \in Tasks \X SubIdx : req[x[1]][x[2]].st = "authWait"})
    + (IF boot = "authWait" THEN 1 ELSE 0)

\* C26 (as claimed): at most one token exchange is in flight at any time.
C26_SingleExchange == ExchangesInFlight <= 1

\* C27 (as claimed): a code block whose descriptor equals that of a fetch that
\* has started and not yet completed issues no request of its own.
C27_NoDuplicateInFlight ==
  [][\A t \in Tasks, source \in Sources :
       (Processed(t) /\ Parses(source)
          /\ (\E u \in Tasks \ {t} :
                /\ pc[u] = "fetching"
                /\ config[u] = parseCodeBlockConfig(source, settings).config)
          /\ ProcessCodeBlock(t, source))
         => req'[t] = req[t]]_vars

\* fetchAllPlaylistTracks has been called and has sent page requests
Paged == pl.offsets # <<>>

\* C21: playlist pagination terminates and is complete: for a playlist of N
\* tracks fetchAllPlaylistTracks sends its page requests at offsets 0, 100,
\* 200, ..., never more than N \div 100 + 1 of them; when it returns it has sent
\* exactly N \div 100 + 1 and returns the N items once each in playlist order;
\* fetchPlaylist calls it only when tracks.total > 100 and returns the whole
\* playlist either way.
C21_PaginationComplete ==
  /\ Paged
       => /\ Len(pl.offsets) <= pl.total \div 100 + 1
          /\ \A k \in 1..Len(pl.offsets) : pl.offsets[k] = (k - 1) * 100
  /\ (Paged /\ pl.st = "done")
       => /\ Len(pl.offsets) = pl.total \div 100 + 1
          /\ pl.tracks = PlaylistItems(pl.total)
  /\ (Paged /\ pl.call = "fetchPlaylist") => pl.total > 100
  /\ pl.st = "done" => pl.items = PlaylistItems(pl.total)

\* a playlist of exactly 200 tracks has been paged: three page requests, the
\* last one answered with an empty page
C21_Witness ==
  /\ pl.st = "done"
  /\ pl.call = "fetchPlaylist"
  /\ pl.total = 200
  /\ pl.offsets = <<0, 100, 200>>
  /\ Len(pl.tracks) = 200

\* C23: no fallback to stale data: when the cache holds an expired entry for
\* the descriptor of a running fetch and a request of that fetch fails (a
\* non-2xx answer or a network failure), the fetch fails with that error and
\* returns nothing, least of all the expired payload; its code block shows the
\* error block, and the cache is left as it was.
C23_NoStaleFallback ==
  [][\A t \in Tasks, i \in SubIdx :
       (pc[t] = "fetching" /\ req[t][i].st = "apiWait"
          /\ Expired(JSONstringify(config[t]))
          /\ (ApiErrStatus(t, i) \/ ApiThrow(t, i)))
         => /\ pc'[t] = "failed"
            /\ err'[t].kind \in {"api", "network"}
            /\ result'[t] = <<>>
            /\ result'[t] # cache[JSONstringify(config[t])].data
            /\ el'[t] = "error"
            /\ cache' = cache]_vars

\* the second code block of the track has failed and shows the error block,
\* while the cache still holds the expired entry the first block stored
C23_Witness ==
  /\ phase = "loaded"
  /\ pc[1] = "done" /\ pc[2] = "failed"
  /\ err[2].kind \in {"api", "network"}
  /\ el[2] = "error" /\ result[2] = <<>>
  /\ Expired(KeyOf(SrcTrackId))
  /\ storedBy[KeyOf(SrcTrackId)] = 1
  /\ cache[KeyOf(SrcTrackId)].data = result[1]

\* the token exchange of the Test Connection click succeeds in this step
TestExchangeSucceeds == test.st = "authWait" /\ test'.st = "saveWait"
\* the plugin is unloaded in this step
Unloads == phase = "loaded" /\ phase' = "unloaded"

\* C24: the token is replaced wholesale: accessToken is null exactly when
\* tokenExpiry is null; a held token and the held expiry come from the same
\* exchange; the pair changes only in the step of a successful exchange, to
\* the token of that exchange and the time of the step plus its expires_in,
\* and in onunload, to null and null.
C24_TokenReplacedWholesale ==
  [][/\ (accessToken = Null) <=> (tokenExpiry = Null)
     /\ (accessToken' = Null) <=> (tokenExpiry' = Null)
     /\ accessToken' # Null => accessToken' = Token(ToNumber(tokenExpiry'))
     /\ (accessToken' # accessToken \/ tokenExpiry' # tokenExpiry)
          => \/ Unloads /\ accessToken' = Null /\ tokenExpiry' = Null
             \/ /\ ExchangeSucceeds \/ TestExchangeSucceeds
                /\ \E e \in ExpiresIn :
                     accessToken' = Token(now + e) /\ tokenExpiry' = <<now + e>>]_vars

\* a token exchange that was on the wire at unload has succeeded afterwards:
\* the unloaded plugin holds its token and its expiry
C24_Witness ==
  /\ phase = "unloaded"
  /\ accessToken # Null
  /\ tokenExpiry # Null
  /\ now > 0

\* a token exchange is started in this step by onload or by the settings tab
ExchangeStartsOutsideFetch ==
  \/ boot # "authWait" /\ boot' = "authWait"
  \/ test.st # "authWait" /\ test'.st = "authWait"
\* a fetchSpotifyData call returns in this step
FetchCompletes == \E t \in Tasks : pc[t] = "fetching" /\ pc'[t] = "done"
\* a token exchange of a makeSpotifyRequest call succeeds in this step
FetchExchangeSucceeds ==
  \E t \in Tasks, i \in SubIdx : req[t][i].auth = "none" /\ req'[t][i].auth = "ok"

\* C25 (as claimed): the cache changes only in a step in which a fetch
\* returns, the held token only through the token exchange of a fetch, and no
\* token exchange is started outside a fetch.
C25_ExclusiveOwnership ==
  [][/\ cache' # cache => FetchCompletes
     /\ (accessToken' # accessToken \/ tokenExpiry' # tokenExpiry)
          => FetchExchangeSucceeds
     /\ ~ExchangeStartsOutsideFetch]_vars

\* C29 (as claimed): Test Connection shows the success notice only if
\* authenticateSpotify returned true.
C29_TestReportsOutcome ==
  "connection successful" \in test.notices => test.ok

\* C30 (as claimed): from onunload on the cache is empty and accessToken and
\* tokenExpiry are null, whatever completes afterwards.
C30_UnloadDurable ==
  phase = "unloaded" => (cache = <<>> /\ accessToken = Null /\ tokenExpiry = Null)

\* the performSearch calls started in the search box of code block b
SearchesOf(b) ==
  {t \in Tasks : entry[t] = "search" /\ target[t] = b
                   /\ pc[t] \in {"fetching", "done", "failed"}}
\* the most recently started of them: the calls are numbered as they start
LatestSearch(b) == CHOOSE t \in SearchesOf(b) : \A u \in SearchesOf(b) : u <= t

\* C28 (as claimed): once all searches started in a search box have completed,
\* its results container shows the outcome of the most recently started one;
\* and the search button is disabled as long as one of them is in flight.
C28_LatestSearchWins ==
  \A b \in Tasks :
    (entry[b] = "search" /\ target[b] = b /\ SearchesOf(b) # {})
      => IF \E t \in SearchesOf(b) : pc[t] = "fetching"
         THEN button[b]
         ELSE shows[b] = LatestSearch(b)

====
